---- MODULE Spec2Model ----
(***************************************************************************)
(* AI Config Switcher (src/src/extension.ts): the profile store kept in    *)
(* ai-profiles.json and the switch engine that backs up, clears and        *)
(* rewrites the AI configuration files of the workspace.                   *)
(*                                                                         *)
(* A command handler is an async function: while it awaits, another       *)
(* handler of the extension host (or another window sharing the global     *)
(* storage) may run. A switchProfile call is a process whose steps are the *)
(* steps of the switch: the lookup, the backup, the remove loop and the    *)
(* write loops; a saveProfile call is a process whose steps are its read   *)
(* and the two halves of its write.                                        *)
(***************************************************************************)
EXTENDS Naturals, Sequences, FiniteSets, TLC

VARIABLES
    hasWorkspace,        \* this.currentWorkspace is defined
    backupBeforeSwitch,  \* setting aiConfigSwitcher.backupBeforeSwitch
    doc,                 \* the file ai-profiles.json
    ws,                  \* files, by their path from the workspace root: path -> content
    bkRoot,              \* .ai-config-backups exists
    bk,                  \* timestamp -> content of .ai-config-backups/backup-<timestamp>
    now,                 \* the time new Date() gave when it was last called
    faults,              \* the file system calls that have failed so far
    sw,                  \* the switchProfile calls
    sv,                  \* the saveProfile calls
    dt,                  \* the last detectAIConfigurations / getCurrentProfile call
    cm                   \* ConfigManager: configs.json, .agent-configs, activeConfig, the copies

vars == <<hasWorkspace, backupBeforeSwitch, doc, ws, bkRoot, bk, now, faults, sw, sv, dt, cm>>

(***************************************************************************)
(* Bounds of the model.                                                    *)
(***************************************************************************)
MaxSwitches == 2
MaxClock == 1
MaxSaves == 2
MaxFaults == 1

Switchers == 1..MaxSwitches
Savers == 1..MaxSaves
Times == 0..MaxClock

(***************************************************************************)
(* The tool catalog.                                                       *)
(***************************************************************************)
AIToolType == <<"cursor", "windsurf", "kilocode", "claude-dev", "copilot", "other">>

CONFIG_MAPPINGS ==
    [tool \in {AIToolType[i] : i \in 1..Len(AIToolType)} |->
        CASE tool = "cursor" -> <<".cursorrules", ".cursorignore", ".cursor">>
          [] tool = "windsurf" -> <<".windsurfrules", ".windsurfignore", "windsurf.json", ".windsurf">>
          [] tool = "kilocode" -> <<".ai_config.toml", ".pr_agent.toml", ".kiloignore", ".kilo">>
          [] tool = "claude-dev" -> <<".claude-rules", ".claude-ignore", "claude-dev.json", ".claude">>
          [] tool = "copilot" -> <<".github/copilot-instructions.md", ".github">>
          [] tool = "other" -> <<".aiexclude", ".amazonq", "devfile.yaml", ".gemini", ".replit",
                                 "replit.nix", ".cody", ".clinerules", "memory_bank">>]

RECURSIVE Flatten(_, _)
Flatten(tools, i) ==
    IF i > Len(tools) THEN <<>> ELSE CONFIG_MAPPINGS[tools[i]] \o Flatten(tools, i + 1)

\* The paths in the order the two loops over Object.entries(CONFIG_MAPPINGS) visit them.
Footprint == Flatten(AIToolType, 1)

FootprintPaths == {Footprint[i] : i \in 1..Len(Footprint)}

(***************************************************************************)
(* Profiles and file contents.                                             *)
(***************************************************************************)
Text(s) == [type |-> "string", text |-> s, fields |-> <<>>]
Object(kvs) == [type |-> "object", text |-> "", fields |-> kvs]

RECURSIVE Members(_, _)
Members(kvs, i) ==
    IF i > Len(kvs) THEN ""
    ELSE "  \"" \o kvs[i][1] \o "\": \"" \o kvs[i][2] \o "\""
         \o (IF i < Len(kvs) THEN ",\n" ELSE "\n") \o Members(kvs, i + 1)

\* JSON.stringify(content, null, 2) followed by the end of line fs-extra appends.
Stringify(kvs) == IF kvs = <<>> THEN "{}\n" ELSE "{\n" \o Members(kvs, 1) \o "}\n"

\* What the write loop puts in the file of one configs entry.
FileText(content) ==
    IF content.type = "string" THEN content.text ELSE Stringify(content.fields)

ReactCursor ==
    [name |-> "react-cursor", description |-> "", aiTool |-> "cursor",
     configs |-> << <<".cursorrules", Text("be brief")>> >>,
     ignorePatterns |-> "dist", rules |-> "use hooks", memoryBank |-> ""]

WindsurfNode ==
    [name |-> "windsurf-node", description |-> "node", aiTool |-> "windsurf",
     configs |-> << <<"windsurf.json", Object(<< <<"model", "fast">> >>)>> >>,
     ignorePatterns |-> "", rules |-> "", memoryBank |-> "notes"]

NoProfile ==
    [name |-> "", description |-> "", aiTool |-> "other", configs |-> <<>>,
     ignorePatterns |-> "", rules |-> "", memoryBank |-> ""]

StoredProfiles == [n \in {"react-cursor", "windsurf-node"} |->
                      IF n = "react-cursor" THEN ReactCursor ELSE WindsurfNode]

\* Two profiles of a store that was written by hand or shared: a key that
\* leaves the workspace, and a key that is an absolute path.
SharedUp ==
    [name |-> "shared-up", description |-> "", aiTool |-> "cursor",
     configs |-> << <<".cursorrules", Text("be brief")>>, <<"../shared.json", Text("team")>> >>,
     ignorePatterns |-> "", rules |-> "", memoryBank |-> ""]

SharedAbsolute ==
    [name |-> "shared-absolute", description |-> "", aiTool |-> "other",
     configs |-> << <<"/etc/ai.json", Object(<< <<"model", "fast">> >>)>> >>,
     ignorePatterns |-> "", rules |-> "", memoryBank |-> ""]

SharedProfiles ==
    [n \in {"react-cursor", "shared-up", "shared-absolute"} |->
        CASE n = "react-cursor" -> ReactCursor
          [] n = "shared-up" -> SharedUp
          [] n = "shared-absolute" -> SharedAbsolute]

\* The names a switch command may be given: the stored ones and one that is not stored.
SwitchNames == DOMAIN StoredProfiles \cup {"ghost"}

(***************************************************************************)
(* The file ai-profiles.json.                                              *)
(***************************************************************************)
NoProfiles == [n \in {} |-> NoProfile]

ValidDoc(profiles) == [kind |-> "valid", profiles |-> profiles]
AbsentDoc == [kind |-> "absent", profiles |-> NoProfiles]
\* A file that was opened for writing and holds none or part of the new text.
PartialDoc == [kind |-> "partial", profiles |-> NoProfiles]
\* A file whose text is not JSON (edited by hand, damaged).
MalformedDoc == [kind |-> "malformed", profiles |-> NoProfiles]

\* fs.readJSON: the parsed document, or a failure.
readJSON(d) == [ok |-> d.kind = "valid", value |-> d.profiles]

\* getProfiles: a read that fails gives the empty mapping.
getProfiles(d) == IF readJSON(d).ok THEN readJSON(d).value ELSE NoProfiles

(***************************************************************************)
(* The workspace.                                                          *)
(***************************************************************************)
EmptyDir == [q \in {} |-> ""]

Remove(dir, path) == [q \in DOMAIN dir \ {path} |-> dir[q]]

Write(dir, path, text) == [q \in DOMAIN dir \cup {path} |-> IF q = path THEN text ELSE dir[q]]

\* The workspace when the extension starts: without configuration files, or
\* with the files two tools left behind.
StartPaths == {".cursorrules", ".windsurfrules"}

StartWorkspaces == {[q \in S |-> "old"] : S \in {{}, StartPaths}}

\* The three specialized files, in the order switchProfile writes them.
Specialized(profile) ==
    (IF profile.rules # "" THEN << <<".rules", profile.rules>> >> ELSE <<>>)
    \o (IF profile.ignorePatterns # "" THEN << <<".aiignore", profile.ignorePatterns>> >> ELSE <<>>)
    \o (IF profile.memoryBank # "" THEN << <<"memory_bank", profile.memoryBank>> >> ELSE <<>>)

\* this.currentWorkspace, as the names of the directories from the root down.
Workspace == <<"home", "project">>

\* A path string cut at its separators; a leading separator gives a first
\* segment that is empty.
Split(fileName) ==
    CASE fileName = "../shared.json" -> <<"..", "shared.json">>
      [] fileName = "/etc/ai.json" -> <<"", "etc", "ai.json">>
      [] fileName = ".github/copilot-instructions.md" -> <<".github", "copilot-instructions.md">>
      [] OTHER -> <<fileName>>

\* path.normalize on segments, `acc` being the segments kept so far: empty
\* and "." segments are dropped and ".." drops the segment before it.
RECURSIVE Normalize(_, _, _)
Normalize(segments, i, acc) ==
    IF i > Len(segments) THEN acc
    ELSE IF segments[i] \in {"", "."} THEN Normalize(segments, i + 1, acc)
    ELSE IF segments[i] = ".."
         THEN Normalize(segments, i + 1, IF acc = <<>> THEN acc ELSE SubSeq(acc, 1, Len(acc) - 1))
    ELSE Normalize(segments, i + 1, Append(acc, segments[i]))

\* path.join(dir, fileName): the two are put together and normalized; a
\* leading separator of fileName does not make the result start at the root.
pathJoin(dir, fileName) == Normalize(dir \o Split(fileName), 1, <<>>)

Under(path, dir) == Len(path) >= Len(dir) /\ SubSeq(path, 1, Len(dir)) = dir

RECURSIVE JoinSegments(_, _)
JoinSegments(segments, i) ==
    IF i > Len(segments) THEN ""
    ELSE segments[i] \o (IF i < Len(segments) THEN "/" ELSE "") \o JoinSegments(segments, i + 1)

\* The number of leading segments two paths share.
RECURSIVE Shared(_, _, _)
Shared(path, dir, i) ==
    IF i > Len(path) \/ i > Len(dir) \/ path[i] # dir[i] THEN i - 1 ELSE Shared(path, dir, i + 1)

RECURSIVE Ups(_)
Ups(n) == IF n = 0 THEN "" ELSE "../" \o Ups(n - 1)

\* The name of a file as seen from the workspace root: a file outside the
\* workspace has a name that starts with "../".
Relative(path) ==
    LET k == Shared(path, Workspace, 1)
    IN Ups(Len(Workspace) - k) \o JoinSegments(SubSeq(path, k + 1, Len(path)), 1)

\* The files of the configs loop, in the order of Object.entries(profile.configs):
\* filePath = path.join(this.currentWorkspace, fileName).
ConfigFiles(profile) ==
    [i \in 1..Len(profile.configs) |->
        <<Relative(pathJoin(Workspace, profile.configs[i][1])),
          FileText(profile.configs[i][2])>>]

\* Every write of one switch, in order: <<path, text>>.
WritePlan(profile) == ConfigFiles(profile) \o Specialized(profile)

PlanPaths(profile) == {WritePlan(profile)[i][1] : i \in 1..Len(WritePlan(profile))}

\* The footprint paths for which pathExists is true, in the loops' order.
Existing(dir) == SelectSeq(Footprint, LAMBDA q : q \in DOMAIN dir)

(***************************************************************************)
(* switchProfile. A call is at one of: Idle (not called), getProfiles      *)
(* (awaiting the store), BackingUp (in backupCurrentConfig), Clearing (the *)
(* remove loop), Writing (the write loops), Done (returned) and Error      *)
(* (threw). Besides the locals of the call (name, profile, ts and widx,    *)
(* the place in the write loops) a record                                  *)
(* keeps what the call has done so far: after is whether the call was     *)
(* made when every earlier call had ended, pre is the workspace (outside   *)
(* .ai-config-backups) when the call left getProfiles, touched the paths   *)
(* it removed or wrote there, added whether it made a directory or file    *)
(* under .ai-config-backups, acted whether it made a file system call of a *)
(* step, copyFailed whether a copy of its backup failed, sealed the backup *)
(* directory as it was when its backup step ended.                         *)
(***************************************************************************)
NoBackups == [t \in {} |-> EmptyDir]

IdleSwitch ==
    [pc |-> "Idle", name |-> "", profile |-> NoProfile, ts |-> 0, widx |-> 0,
     after |-> FALSE, pre |-> EmptyDir, touched |-> {}, added |-> FALSE, acted |-> FALSE,
     copyFailed |-> FALSE, backedUp |-> FALSE, sealed |-> EmptyDir, failedAt |-> "",
     shown |-> "", refreshed |-> FALSE]

InFlight(c) == c.pc \in {"BackingUp", "Clearing", "Writing"}

\* A switchProfile that ended in error without the command showing anything.
ThrowsUnreported(c, stage) == [c EXCEPT !.pc = "Error", !.failedAt = stage]

\* throw new Error(...) out of switchProfile, from the step `stage`; the
\* command's catch (lines 393-396) shows the message with showErrorMessage.
Throws(c, stage) == [c EXCEPT !.pc = "Error", !.failedAt = stage, !.shown = "error"]

\* Lines 200-202: switchProfile shows the information message when the
\* setting showNotifications (read here as `notify`) is set, and returns;
\* line 392: the command then calls treeDataProvider.refresh().
Returns(c, notify) ==
    [c EXCEPT !.pc = "Done", !.shown = IF notify THEN "info" ELSE "", !.refreshed = TRUE]

\* The directory backup-<ts>, empty when it does not exist yet.
BackupOf(t) == IF t \in DOMAIN bk THEN bk[t] ELSE EmptyDir

PutBackup(t, dir) == [u \in DOMAIN bk \cup {t} |-> IF u = t THEN dir ELSE bk[u]]

\* A call that ended, of which nothing is kept.
EndedSwitch == [IdleSwitch EXCEPT !.pc = "Ended"]

Ended(c) == c.pc \in {"Done", "Error", "Ended"}

\* Line 145: the command calls switchProfile(profileName). The calls are
\* numbered in the order they are made, and at most two of them overlap: a
\* call is made when every call but the latest has ended, and what the
\* calls before the latest have done is no longer kept.
switchProfile(p, profileName) ==
    /\ sw[p].pc = "Idle"
    /\ \A q \in Switchers : q < p => sw[q].pc # "Idle"
    /\ \A q \in Switchers : q + 1 < p => Ended(sw[q])
    /\ sw' = [q \in Switchers |->
                IF q + 1 < p THEN EndedSwitch
                ELSE IF q # p THEN sw[q]
                ELSE LET c == [sw[p] EXCEPT !.name = profileName,
                                            !.after = \A r \in Switchers : r < p => Ended(sw[r])]
                     IN IF ~hasWorkspace THEN Throws(c, "Idle")
                        ELSE [c EXCEPT !.pc = "getProfiles"]]
    /\ UNCHANGED <<hasWorkspace, backupBeforeSwitch, doc, ws, bkRoot, bk, now, faults, sv, dt, cm>>

\* A switchProfile that skipped the backup whatever the setting says.
EnterStepsNoBackup(c, profile, t) == [c EXCEPT !.profile = profile, !.pre = ws, !.pc = "Clearing"]

\* The call as it enters the try block with the profile found: the backup
\* step when the setting asks for one (backupCurrentConfig computes its
\* timestamp before its first await), the remove loop otherwise.
EnterSteps(c, profile, t) ==
    LET d == [c EXCEPT !.profile = profile, !.pre = ws]
    IN IF backupBeforeSwitch
       THEN [d EXCEPT !.pc = "BackingUp", !.ts = t]
       ELSE [d EXCEPT !.pc = "Clearing"]

\* A lookup that takes every name as stored.
FoundAlways(profiles, profileName) == TRUE

\* Lines 151-153: profiles[profileName] is a record.
Found(profiles, profileName) == profileName \in DOMAIN profiles

\* Line 151: profiles[profileName], undefined being shown as NoProfile.
ProfileOf(profiles, profileName) ==
    IF profileName \in DOMAIN profiles THEN profiles[profileName] ELSE NoProfile

\* Lines 150-162: getProfiles resolves and the profile is looked up; a call
\* that backs up reads the clock, which gives t, the last reading or later.
SwitchLookup(p, t) ==
    /\ sw[p].pc = "getProfiles"
    /\ t >= now
    /\ LET profiles == getProfiles(doc)
           found == Found(profiles, sw[p].name)
       IN /\ sw' = [sw EXCEPT ![p] =
                      IF found THEN EnterSteps(@, ProfileOf(profiles, sw[p].name), t)
                      ELSE Throws(@, "getProfiles")]
          /\ now' = IF found /\ backupBeforeSwitch THEN t ELSE now
          /\ ~(found /\ backupBeforeSwitch) => t = now
    /\ UNCHANGED <<hasWorkspace, backupBeforeSwitch, doc, ws, bkRoot, bk, faults, sv, dt, cm>>

\* fs.copy(sourcePath, destPath) for the first k of `paths`: each destination
\* holds its source's content (fs-extra overwrites an existing destination).
RECURSIVE CopyAll(_, _, _)
CopyAll(dir, paths, k) ==
    IF k = 0 THEN dir ELSE Write(CopyAll(dir, paths, k - 1), paths[k], ws[paths[k]])

\* A backupCurrentConfig whose catch swallowed the error: the switch would go
\* on to the remove loop.
BackupSwallowed(c) == [c EXCEPT !.acted = TRUE, !.pc = "Clearing"]

\* backupCurrentConfig's catch rethrows and switchProfile's catch rethrows:
\* the call ends without entering the remove loop.
BackupThrows(c) == Throws([c EXCEPT !.acted = TRUE], "BackingUp")

\* The call after backupCurrentConfig returned, `dir` being backup-<ts>.
BackupReturns(c, dir) ==
    [c EXCEPT !.pc = "Clearing", !.acted = TRUE, !.backedUp = TRUE, !.sealed = dir,
              !.added = ~bkRoot \/ dir # BackupOf(c.ts)]

\* Lines 208-227: backupCurrentConfig copies every footprint path that exists.
\* backup-<ts> is made by the ensureDir before the first copy.
backupCurrentConfig(p) ==
    /\ sw[p].pc = "BackingUp"
    /\ LET paths == Existing(ws)
           dir == CopyAll(BackupOf(sw[p].ts), paths, Len(paths))
       IN /\ bk' = IF paths = <<>> THEN bk ELSE PutBackup(sw[p].ts, dir)
          /\ sw' = [sw EXCEPT ![p] = BackupReturns(@, dir)]
    /\ bkRoot' = TRUE
    /\ UNCHANGED <<hasWorkspace, backupBeforeSwitch, doc, ws, now, faults, sv, dt, cm>>

\* Line 216: fs.ensureDir(backupDir) fails.
BackupEnsureDirFails(p) ==
    /\ sw[p].pc = "BackingUp"
    /\ faults < MaxFaults
    /\ faults' = faults + 1
    /\ sw' = [sw EXCEPT ![p] = BackupThrows(@)]
    /\ UNCHANGED <<hasWorkspace, backupBeforeSwitch, doc, ws, bkRoot, bk, now, sv, dt, cm>>

\* Line 224: the k-th copy fails, after the copies before it and its ensureDir.
BackupCopyFails(p, k) ==
    /\ sw[p].pc = "BackingUp"
    /\ faults < MaxFaults
    /\ k \in 1..Len(Existing(ws))
    /\ faults' = faults + 1
    /\ bkRoot' = TRUE
    /\ bk' = PutBackup(sw[p].ts, CopyAll(BackupOf(sw[p].ts), Existing(ws), k - 1))
    /\ sw' = [sw EXCEPT ![p] = BackupThrows([@ EXCEPT !.copyFailed = TRUE,
                                                      !.added = bkRoot' # bkRoot \/ bk' # bk])]
    /\ UNCHANGED <<hasWorkspace, backupBeforeSwitch, doc, ws, now, sv, dt, cm>>

\* The paths the remove loop removes when they exist.
ClearTargets == Footprint

\* fs.remove for the first k of `paths`.
RECURSIVE RemoveAll(_, _, _)
RemoveAll(dir, paths, k) ==
    IF k = 0 THEN dir ELSE Remove(RemoveAll(dir, paths, k - 1), paths[k])

Removable(dir) == SelectSeq(ClearTargets, LAMBDA q : q \in DOMAIN dir)

Prefix(paths, k) == {paths[i] : i \in 1..k}

\* The call after the remove loop: the write loops, and a profile with
\* nothing to write is done.
ClearReturns(c, notify) ==
    IF WritePlan(c.profile) = <<>> THEN Returns(c, notify) ELSE [c EXCEPT !.pc = "Writing", !.widx = 1]

\* Lines 164-173: the remove loop.
ClearConfigs(p, notify) ==
    /\ sw[p].pc = "Clearing"
    /\ LET paths == Removable(ws)
       IN /\ ws' = RemoveAll(ws, paths, Len(paths))
          /\ sw' = [sw EXCEPT ![p] =
                      ClearReturns([@ EXCEPT !.acted = TRUE,
                                             !.touched = @ \cup Prefix(paths, Len(paths))],
                                   notify)]
    /\ UNCHANGED <<hasWorkspace, backupBeforeSwitch, doc, bkRoot, bk, now, faults, sv, dt, cm>>

\* Line 170: the k-th fs.remove fails, after the removals before it.
ClearFails(p, k) ==
    /\ sw[p].pc = "Clearing"
    /\ faults < MaxFaults
    /\ k \in 1..Len(Removable(ws))
    /\ faults' = faults + 1
    /\ ws' = RemoveAll(ws, Removable(ws), k - 1)
    /\ sw' = [sw EXCEPT ![p] =
                Throws([@ EXCEPT !.acted = TRUE,
                                 !.touched = @ \cup Prefix(Removable(ws), k - 1)],
                       "Clearing")]
    /\ UNCHANGED <<hasWorkspace, backupBeforeSwitch, doc, bkRoot, bk, now, sv, dt, cm>>

\* A write loop that does not move on to the next file.
WriteStalls(c, notify) == c

\* The call after a write: the next write, and after the last one
\* switchProfile returns.
WriteReturns(c, notify) ==
    IF c.widx = Len(WritePlan(c.profile)) THEN Returns([c EXCEPT !.widx = 0], notify)
    ELSE [c EXCEPT !.widx = @ + 1]

\* Lines 176-198: one fs.writeFile / fs.writeJSON of the write loops.
WriteConfig(p, notify) ==
    /\ sw[p].pc = "Writing"
    /\ LET entry == WritePlan(sw[p].profile)[sw[p].widx]
       IN /\ ws' = Write(ws, entry[1], entry[2])
          /\ sw' = [sw EXCEPT ![p] =
                      WriteReturns([@ EXCEPT !.acted = TRUE, !.touched = @ \cup {entry[1]}],
                                   notify)]
    /\ UNCHANGED <<hasWorkspace, backupBeforeSwitch, doc, bkRoot, bk, now, faults, sv, dt, cm>>

\* Lines 176-198: a write fails; the files written before it stay.
WriteFails(p) ==
    /\ sw[p].pc = "Writing"
    /\ faults < MaxFaults
    /\ faults' = faults + 1
    /\ sw' = [sw EXCEPT ![p] = Throws([@ EXCEPT !.acted = TRUE, !.widx = 0], "Writing")]
    /\ UNCHANGED <<hasWorkspace, backupBeforeSwitch, doc, ws, bkRoot, bk, now, sv, dt, cm>>

(***************************************************************************)
(* detectAIConfigurations and getCurrentProfile.                           *)
(***************************************************************************)
\* glob(pattern, { cwd }) for a pattern without wildcards: the path when it
\* exists.
glob(pattern, dir) == IF pattern \in DOMAIN dir THEN <<pattern>> ELSE <<>>

\* A detection that takes a tool as present without looking.
AnyMatchAlways(patterns, dir, failed, j) == TRUE

\* A loop over the patterns of a tool that a rejecting glob ends.
RECURSIVE AnyMatchAborting(_, _, _, _)
AnyMatchAborting(patterns, dir, failed, j) ==
    IF j > Len(patterns) THEN FALSE
    ELSE IF patterns[j] \in failed THEN FALSE
    ELSE IF Len(glob(patterns[j], dir)) > 0 THEN TRUE
    ELSE AnyMatchAborting(patterns, dir, failed, j + 1)

\* Lines 112-122: the loop over the patterns of one tool, from the j-th on: a
\* glob that rejects is logged and the loop goes on; the first match ends it.
RECURSIVE AnyMatch(_, _, _, _)
AnyMatch(patterns, dir, failed, j) ==
    IF j > Len(patterns) THEN FALSE
    ELSE IF patterns[j] \notin failed /\ Len(glob(patterns[j], dir)) > 0 THEN TRUE
    ELSE AnyMatch(patterns, dir, failed, j + 1)

\* Lines 110-123: the loop over Object.entries(CONFIG_MAPPINGS), from the i-th tool on.
RECURSIVE DetectTools(_, _, _)
DetectTools(dir, failed, i) ==
    IF i > Len(AIToolType) THEN <<>>
    ELSE (IF AnyMatch(CONFIG_MAPPINGS[AIToolType[i]], dir, failed, 1)
          THEN <<AIToolType[i]>> ELSE <<>>)
         \o DetectTools(dir, failed, i + 1)

\* Lines 106-125.
detectAIConfigurations(workspace, dir, failed) ==
    IF ~workspace THEN <<>> ELSE DetectTools(dir, failed, 1)

\* detectedTools.includes(tool)
Includes(detectedTools, tool) == \E i \in 1..Len(detectedTools) : detectedTools[i] = tool

\* Object.values(profiles), `keys` being the order of the object's keys.
Values(profiles, keys) == [i \in 1..Len(keys) |-> profiles[keys[i]]]

\* A find that gives the last element that has a detected tool.
FindLast(values, detectedTools, i) ==
    LET hits == {k \in i..Len(values) : Includes(detectedTools, values[k].aiTool)}
    IN IF hits = {} THEN [found |-> FALSE, profile |-> NoProfile]
       ELSE [found |-> TRUE, profile |-> values[CHOOSE k \in hits : \A m \in hits : m <= k]]

\* Array.prototype.find: the first element from the i-th on that has a
\* detected tool, or undefined.
RECURSIVE Find(_, _, _)
Find(values, detectedTools, i) ==
    IF i > Len(values) THEN [found |-> FALSE, profile |-> NoProfile]
    ELSE IF Includes(detectedTools, values[i].aiTool) THEN [found |-> TRUE, profile |-> values[i]]
    ELSE Find(values, detectedTools, i + 1)

\* Lines 254-262.
getCurrentProfile(workspace, dir, failed, profiles, keys) ==
    IF ~workspace THEN [found |-> FALSE, profile |-> NoProfile]
    ELSE IF Len(detectAIConfigurations(workspace, dir, failed)) = 0
         THEN [found |-> FALSE, profile |-> NoProfile]
    ELSE Find(Values(profiles, keys), detectAIConfigurations(workspace, dir, failed), 1)

IdleDetect ==
    [pc |-> "Idle", failed |-> {}, keys |-> <<>>, detectedTools |-> <<>>,
     current |-> [found |-> FALSE, profile |-> NoProfile]]

\* A detection that removes what it finds.
DetectCallClearing(failed) ==
    /\ dt' = [IdleDetect EXCEPT !.pc = "detected", !.failed = failed,
                                !.detectedTools = detectAIConfigurations(hasWorkspace, ws, failed)]
    /\ ws' = EmptyDir
    /\ UNCHANGED <<hasWorkspace, backupBeforeSwitch, doc, bkRoot, bk, now, faults, sw, sv, cm>>

\* A call of detectAIConfigurations returns.
DetectCall(failed) ==
    /\ dt' = [IdleDetect EXCEPT !.pc = "detected", !.failed = failed,
                                !.detectedTools = detectAIConfigurations(hasWorkspace, ws, failed)]
    /\ UNCHANGED <<hasWorkspace, backupBeforeSwitch, doc, ws, bkRoot, bk, now, faults, sw, sv, cm>>

\* A call of getCurrentProfile returns; the object its getProfiles gave has
\* its keys in the order `keys`.
CurrentProfileCall(failed, keys) ==
    /\ {keys[i] : i \in 1..Len(keys)} = DOMAIN getProfiles(doc)
    /\ Len(keys) = Cardinality(DOMAIN getProfiles(doc))
    /\ dt' = [pc |-> "current", failed |-> failed, keys |-> keys,
              detectedTools |-> detectAIConfigurations(hasWorkspace, ws, failed),
              current |-> getCurrentProfile(hasWorkspace, ws, failed, getProfiles(doc), keys)]
    /\ UNCHANGED <<hasWorkspace, backupBeforeSwitch, doc, ws, bkRoot, bk, now, faults, sw, sv, cm>>

\* Lines 233-252: suggestProfileCreation detects the tools, returns when
\* there is none or when a stored profile has one of them, and asks the user
\* otherwise; on 'Yes' (create) it executes the sync command, which starts
\* with its name box, and does not wait for it.
suggestProfileCreation(failed, create) ==
    /\ LET detectedTools == detectAIConfigurations(hasWorkspace, ws, failed)
           profiles == getProfiles(doc)
           hasMatchingProfile ==
               \E n \in DOMAIN profiles : Includes(detectedTools, profiles[n].aiTool)
       IN dt' = [IdleDetect EXCEPT
                   !.pc = IF Len(detectedTools) = 0 \/ hasMatchingProfile THEN "suggest-none"
                          ELSE IF create THEN "suggest-yes" ELSE "suggest-no",
                   !.failed = failed, !.detectedTools = detectedTools]
    /\ UNCHANGED <<hasWorkspace, backupBeforeSwitch, doc, ws, bkRoot, bk, now, faults, sw, sv, cm>>

(***************************************************************************)
(* The commands that write the store. A command is at one of: Idle (not    *)
(* invoked), named (the create or sync command has a name its input box    *)
(* accepted and awaits the other inputs), picking (the manage command has  *)
(* listed the profiles and awaits the choices), getProfiles (saveProfile   *)
(* awaits its read), open (fs.writeJSON has the text and is about to open  *)
(* the file), write (the file is open for writing, which emptied it), Done *)
(* and Error. op is the command, name the profile it is about, profiles    *)
(* the local of that name; saw is the state of the file when saveProfile   *)
(* read it, before the mapping the file gave just before the command       *)
(* opened it for writing, shown the message the command showed.            *)
(***************************************************************************)
IdleSave ==
    [pc |-> "Idle", op |-> "", name |-> "", profile |-> NoProfile, profiles |-> NoProfiles,
     saw |-> "", before |-> NoProfiles, shown |-> ""]

\* The arguments the commands give createProfile: <<name, description, aiTool>>.
CreateInputs ==
    {<<"react-cursor", "", "cursor">>, <<"scratch", "mine", "windsurf">>,
     <<"scratch", "", "other">>}

\* What the user types into the name box of the create command.
InputNames == {""} \cup {in[1] : in \in CreateInputs}

\* A profile whose name field is left empty.
NewProfileUnnamed(name, description, aiTool) ==
    [name |-> "", description |-> description, aiTool |-> aiTool, configs |-> <<>>,
     ignorePatterns |-> "", rules |-> "", memoryBank |-> ""]

\* The names a profile of the store may have.
StoreNames == DOMAIN StoredProfiles \cup {in[1] : in \in CreateInputs}

\* Lines 132-140: the profile createProfile builds.
NewProfile(name, description, aiTool) ==
    [name |-> name,
     description |-> IF description # "" THEN description ELSE aiTool \o " configuration",
     aiTool |-> aiTool, configs |-> <<>>, ignorePatterns |-> "", rules |-> "", memoryBank |-> ""]

\* A validateInput that accepts every name.
NameTakenNever(profiles, value) == FALSE

\* Lines 405-406 and 487-488: validateInput finds the name in the store.
NameTaken(profiles, value) == value \in DOMAIN profiles

\* Lines 401-411 and 483-493: the input box of the create or the sync
\* command validates the name the user types against the store as it is
\* then. The empty name is refused with 'Profile name is required', a name
\* that is taken is refused with 'Profile already exists', and
\* the user dismisses the box; another name is accepted and the command goes
\* on to ask for the other inputs.
NameInput(s, op, name) ==
    /\ sv[s].pc = "Idle"
    /\ \A r \in Savers : r < s => sv[r].pc # "Idle"
    /\ sv' = [sv EXCEPT ![s] =
                IF name = ""
                THEN [@ EXCEPT !.pc = "Done", !.op = op, !.shown = "required"]
                ELSE IF NameTaken(getProfiles(doc), name)
                THEN [@ EXCEPT !.pc = "Done", !.op = op, !.name = name, !.shown = "exists"]
                ELSE [@ EXCEPT !.pc = "named", !.op = op, !.name = name]]
    /\ UNCHANGED <<hasWorkspace, backupBeforeSwitch, doc, ws, bkRoot, bk, now, faults, sw, dt, cm>>

\* Lines 127-142: createProfile throws without a workspace, and calls
\* saveProfile(name, profile) otherwise.
CallCreateProfile(c, description, aiTool) ==
    IF ~hasWorkspace THEN [c EXCEPT !.pc = "Error", !.shown = "error"]
    ELSE [c EXCEPT !.pc = "getProfiles", !.profile = NewProfile(c.name, description, aiTool)]

\* Lines 413-424: the create command has the description and the tool, and
\* calls createProfile.
createProfile(s, name, description, aiTool) ==
    /\ sv[s].pc = "named"
    /\ sv[s].op = "create"
    /\ sv[s].name = name
    /\ sv' = [sv EXCEPT ![s] = CallCreateProfile(@, description, aiTool)]
    /\ UNCHANGED <<hasWorkspace, backupBeforeSwitch, doc, ws, bkRoot, bk, now, faults, sw, dt, cm>>

\* Lines 495-506: the sync command has the description, detects the tools of
\* the workspace, shows an error when there is none, and calls createProfile
\* with the first of them otherwise.
syncFromCurrent(s, description, failed) ==
    /\ sv[s].pc = "named"
    /\ sv[s].op = "sync"
    /\ LET detectedTools == detectAIConfigurations(hasWorkspace, ws, failed)
       IN sv' = [sv EXCEPT ![s] =
                   IF Len(detectedTools) = 0 THEN [@ EXCEPT !.pc = "Done", !.shown = "error"]
                   ELSE CallCreateProfile(@, description, detectedTools[1])]
    /\ UNCHANGED <<hasWorkspace, backupBeforeSwitch, doc, ws, bkRoot, bk, now, faults, sw, dt, cm>>

\* Line 91: profiles[profileName] = profile.
Upsert(profiles, name, profile) ==
    [n \in DOMAIN profiles \cup {name} |-> IF n = name THEN profile ELSE profiles[n]]

\* What saveProfile does when its getProfiles has returned `profiles`, read
\* from a file in state `kind`: it goes on to write the updated mapping.
AfterLoad(c, kind, profiles) ==
    [c EXCEPT !.pc = "open", !.saw = kind, !.profiles = Upsert(profiles, c.name, c.profile)]

\* delete profiles[name]
Without(profiles, name) == [n \in DOMAIN profiles \ {name} |-> profiles[n]]

\* Line 517: the manage command lists the profiles of the store.
ManageList(s) ==
    /\ sv[s].pc = "Idle"
    /\ \A r \in Savers : r < s => sv[r].pc # "Idle"
    /\ sv' = [sv EXCEPT ![s] = [@ EXCEPT !.pc = "picking", !.op = "delete",
                                         !.profiles = getProfiles(doc)]]
    /\ UNCHANGED <<hasWorkspace, backupBeforeSwitch, doc, ws, bkRoot, bk, now, faults, sw, dt, cm>>

\* Lines 525-547: the user picks a listed profile and Delete and confirms; the
\* command deletes the key from the mapping it listed and calls saveProfiles.
ManageDelete(s, name) ==
    /\ sv[s].pc = "picking"
    /\ name \in DOMAIN sv[s].profiles
    /\ sv' = [sv EXCEPT ![s] = [@ EXCEPT !.pc = "open", !.name = name,
                                         !.profiles = Without(@, name)]]
    /\ UNCHANGED <<hasWorkspace, backupBeforeSwitch, doc, ws, bkRoot, bk, now, faults, sw, dt, cm>>

\* Lines 65-72: the constructor starts ensureProfilesFile and does not wait
\* for it. Its pathExists resolves; when the file is there it returns, and
\* otherwise it goes on to call fs.writeJSON(profilesPath, {}).
ensureProfilesFile(s) ==
    /\ sv[s].pc = "Idle"
    /\ \A r \in Savers : r < s => sv[r].pc # "Idle"
    /\ sv' = [sv EXCEPT ![s] =
                IF doc.kind = "absent"
                THEN [@ EXCEPT !.pc = "open", !.op = "ensure", !.saw = doc.kind,
                               !.profiles = NoProfiles]
                ELSE [@ EXCEPT !.pc = "Done", !.op = "ensure", !.saw = doc.kind]]
    /\ UNCHANGED <<hasWorkspace, backupBeforeSwitch, doc, ws, bkRoot, bk, now, faults, sw, dt, cm>>

\* Lines 433-454: the edit command has a profile name, from its argument or
\* from the pick of lines 435-448, and reads that profile from the store;
\* it shows 'Profile ... not found' and returns when there is none.
EditPick(s, name) ==
    /\ sv[s].pc = "Idle"
    /\ \A r \in Savers : r < s => sv[r].pc # "Idle"
    /\ sv' = [sv EXCEPT ![s] =
                IF ~Found(getProfiles(doc), name)
                THEN [@ EXCEPT !.pc = "Done", !.op = "edit", !.name = name, !.shown = "error"]
                ELSE [@ EXCEPT !.pc = "editing", !.op = "edit", !.name = name,
                               !.profile = getProfiles(doc)[name]]]
    /\ UNCHANGED <<hasWorkspace, backupBeforeSwitch, doc, ws, bkRoot, bk, now, faults, sw, dt, cm>>

\* Lines 456-472: the edit command has the new description and the tool, and
\* calls createProfile(profileName, description, aiTool).
editProfile(s, description, aiTool) ==
    /\ sv[s].pc = "editing"
    /\ sv' = [sv EXCEPT ![s] = CallCreateProfile(@, description, aiTool)]
    /\ UNCHANGED <<hasWorkspace, backupBeforeSwitch, doc, ws, bkRoot, bk, now, faults, sw, dt, cm>>

\* Lines 80-86 and 98: getProfiles resolves and what it gave is handed to
\* saveProfiles as it is.
LoadForSave(s) ==
    /\ sv[s].pc = "Idle"
    /\ \A r \in Savers : r < s => sv[r].pc # "Idle"
    /\ sv' = [sv EXCEPT ![s] = [@ EXCEPT !.pc = "open", !.op = "resave", !.saw = doc.kind,
                                         !.profiles = getProfiles(doc)]]
    /\ UNCHANGED <<hasWorkspace, backupBeforeSwitch, doc, ws, bkRoot, bk, now, faults, sw, dt, cm>>

\* Lines 411, 422, 461, 470, 493, 529, 535, 545: the user dismisses a box of the
\* command, which returns.
Dismiss(s) ==
    /\ sv[s].pc \in {"named", "picking", "editing"}
    /\ sv' = [sv EXCEPT ![s] = [@ EXCEPT !.pc = "Done", !.op = "dismissed"]]
    /\ UNCHANGED <<hasWorkspace, backupBeforeSwitch, doc, ws, bkRoot, bk, now, faults, sw, dt, cm>>

\* Lines 90-91: getProfiles resolves.
SaveLoad(s) ==
    /\ sv[s].pc = "getProfiles"
    /\ sv' = [sv EXCEPT ![s] = AfterLoad(@, doc.kind, getProfiles(doc))]
    /\ UNCHANGED <<hasWorkspace, backupBeforeSwitch, doc, ws, bkRoot, bk, now, faults, sw, dt, cm>>

\* The file once fs.writeFile has opened it with flag 'w' and written nothing yet.
Opened(d) == PartialDoc

\* Line 92: fs.writeJSON opens ai-profiles.json for writing.
SaveOpen(s) ==
    /\ sv[s].pc = "open"
    /\ doc' = Opened(doc)
    /\ sv' = [sv EXCEPT ![s] = [@ EXCEPT !.pc = "write", !.before = getProfiles(doc)]]
    /\ UNCHANGED <<hasWorkspace, backupBeforeSwitch, ws, bkRoot, bk, now, faults, sw, dt, cm>>

\* Line 92: the file cannot be opened; saveProfile throws.
SaveOpenFails(s) ==
    /\ sv[s].pc = "open"
    /\ faults < MaxFaults
    /\ faults' = faults + 1
    /\ sv' = [sv EXCEPT ![s] = [@ EXCEPT !.pc = "Error", !.shown = "error"]]
    /\ UNCHANGED <<hasWorkspace, backupBeforeSwitch, doc, ws, bkRoot, bk, now, sw, dt, cm>>

\* Line 92: the text is written and the file closed.
SaveWrite(s) ==
    /\ sv[s].pc = "write"
    /\ doc' = ValidDoc(sv[s].profiles)
    /\ sv' = [sv EXCEPT ![s] = [@ EXCEPT !.pc = "Done",
                                         !.shown = IF sv[s].op = "ensure" THEN "" ELSE "info"]]
    /\ UNCHANGED <<hasWorkspace, backupBeforeSwitch, ws, bkRoot, bk, now, faults, sw, dt, cm>>

\* Line 92: the write is interrupted; the file keeps what it held.
SaveWriteFails(s) ==
    /\ sv[s].pc = "write"
    /\ faults < MaxFaults
    /\ faults' = faults + 1
    /\ sv' = [sv EXCEPT ![s] = [@ EXCEPT !.pc = "Error", !.shown = "error"]]
    /\ UNCHANGED <<hasWorkspace, backupBeforeSwitch, doc, ws, bkRoot, bk, now, sw, dt, cm>>

(***************************************************************************)
(* ConfigManager. configs is the array in .agent-configs/configs.json,     *)
(* dirs the names of the config directories under .agent-configs (.base is *)
(* always there), activeConfig the field of that name, NoConfig when null, *)
(* and copies the names n for which <workspaceRoot>/.n exists. Its methods *)
(* are synchronous, so each call is one step. last is the last call: its   *)
(* method, its argument, whether the argument was listed when it was made, *)
(* and how it ended: ok, error (a message was shown) or threw.             *)
(***************************************************************************)
ConfigNames == {"alpha", "beta"}

NoConfig == ""

NoCall == [op |-> "", name |-> "", listed |-> FALSE, outcome |-> ""]

NoConfigs ==
    [configs |-> <<>>, dirs |-> {}, activeConfig |-> NoConfig, copies |-> {}, last |-> NoCall]

\* configs.some(c => c.name === name)
Listed(configs, name) == \E i \in 1..Len(configs) : configs[i].name = name

\* configs.filter(c => c.name !== name)
Filtered(configs, name) == SelectSeq(configs, LAMBDA c : c.name # name)

\* An activation that flags the named entry and leaves the other flags.
UpdatedKeepingFlags(configs, name) ==
    [i \in 1..Len(configs) |->
        [name |-> configs[i].name, active |-> configs[i].active \/ configs[i].name = name]]

\* Lines 694-697: configs.map(c => ({ ...c, active: c.name === name }))
Updated(configs, name) ==
    [i \in 1..Len(configs) |-> [name |-> configs[i].name, active |-> configs[i].name = name]]

\* Lines 612-614: the name of the first entry that is active, or null.
FirstActive(configs) ==
    IF \E i \in 1..Len(configs) : configs[i].active
    THEN configs[CHOOSE i \in 1..Len(configs) :
                    configs[i].active /\ \A j \in 1..(i - 1) : ~configs[j].active].name
    ELSE NoConfig

Called(c, op, name, outcome) ==
    [c EXCEPT !.last = [op |-> op, name |-> name, listed |-> Listed(c.configs, name),
                        outcome |-> outcome]]

\* Lines 585-591 and 610-618: a new ConfigManager is constructed (the window
\* is reloaded) and loadActiveConfig reads the active entry of configs.json.
loadActiveConfig ==
    /\ cm' = [cm EXCEPT !.activeConfig = FirstActive(cm.configs), !.last = NoCall]
    /\ UNCHANGED <<hasWorkspace, backupBeforeSwitch, doc, ws, bkRoot, bk, now, faults, sw, sv, dt>>

\* Lines 632-648: createConfig refuses a listed name; mkdirSync throws when
\* the directory is there; otherwise the directory is made from .base and
\* the entry is appended with active false.
createConfig(name) ==
    /\ cm' = IF Listed(cm.configs, name) THEN Called(cm, "create", name, "error")
             ELSE IF name \in cm.dirs THEN Called(cm, "create", name, "threw")
             ELSE [Called(cm, "create", name, "ok") EXCEPT
                      !.dirs = @ \cup {name},
                      !.configs = Append(@, [name |-> name, active |-> FALSE])]
    /\ UNCHANGED <<hasWorkspace, backupBeforeSwitch, doc, ws, bkRoot, bk, now, faults, sw, sv, dt>>

\* Lines 642-643: the directory is made and copying .base into it throws.
CreateCopyFails(name) ==
    /\ ~Listed(cm.configs, name)
    /\ name \notin cm.dirs
    /\ faults < MaxFaults
    /\ faults' = faults + 1
    /\ cm' = [Called(cm, "create", name, "threw") EXCEPT !.dirs = @ \cup {name}]
    /\ UNCHANGED <<hasWorkspace, backupBeforeSwitch, doc, ws, bkRoot, bk, now, sw, sv, dt>>

\* Lines 710-721: deactivateCurrent removes <workspaceRoot>/.<activeConfig>
\* when it exists; `removed` is whether rmSync did so or threw, which is
\* caught and shown.
deactivateCurrent(c, removed) ==
    IF c.activeConfig = NoConfig THEN c
    ELSE IF removed THEN [c EXCEPT !.copies = @ \ {c.activeConfig}]
    ELSE c

\* Lines 679-681: if (this.activeConfig === name) this.deactivateCurrent()
DeactivateIfActive(c, name, removed) ==
    IF c.activeConfig = name THEN deactivateCurrent(c, removed) ELSE c

\* Lines 670-690: deleteConfig shows an error for a name that is not listed;
\* otherwise it deactivates the config when it is the active one, removes
\* its directory and saves the list without it.
deleteConfig(name) ==
    /\ cm' = IF ~Listed(cm.configs, name) THEN Called(cm, "delete", name, "error")
             ELSE [DeactivateIfActive(Called(cm, "delete", name, "ok"), name, TRUE) EXCEPT
                      !.dirs = @ \ {name},
                      !.configs = Filtered(@, name)]
    /\ UNCHANGED <<hasWorkspace, backupBeforeSwitch, doc, ws, bkRoot, bk, now, faults, sw, sv, dt>>

\* Lines 713-719 in deleteConfig: the copy of the active config cannot be
\* removed; the error is shown and deleteConfig goes on.
DeleteDeactivateFails(name) ==
    /\ Listed(cm.configs, name)
    /\ cm.activeConfig = name
    /\ name \in cm.copies
    /\ faults < MaxFaults
    /\ faults' = faults + 1
    /\ cm' = [DeactivateIfActive(Called(cm, "delete", name, "ok"), name, FALSE) EXCEPT
                 !.dirs = @ \ {name},
                 !.configs = Filtered(@, name)]
    /\ UNCHANGED <<hasWorkspace, backupBeforeSwitch, doc, ws, bkRoot, bk, now, sw, sv, dt>>

\* Lines 683-689: rmSync of the config directory throws; the catch shows
\* the error and the list is not saved.
DeleteRemoveFails(name) ==
    /\ Listed(cm.configs, name)
    /\ faults < MaxFaults
    /\ faults' = faults + 1
    /\ cm' = DeactivateIfActive(Called(cm, "delete", name, "error"), name, TRUE)
    /\ UNCHANGED <<hasWorkspace, backupBeforeSwitch, doc, ws, bkRoot, bk, now, sw, sv, dt>>

\* Lines 702-705: copyFolderRecursive copies the config directory, when
\* there is one, to <workspaceRoot>/.<name>.
Installed(c, name) == IF name \in c.dirs THEN [c EXCEPT !.copies = @ \cup {name}] ELSE c

\* Lines 692-708: activateConfig deactivates the current config, records the
\* name, installs the copy and saves the list with that entry alone active.
activateConfig(name) ==
    /\ cm' = [Installed([deactivateCurrent(Called(cm, "activate", name, "ok"), TRUE)
                            EXCEPT !.activeConfig = name], name)
                 EXCEPT !.configs = Updated(@, name)]
    /\ UNCHANGED <<hasWorkspace, backupBeforeSwitch, doc, ws, bkRoot, bk, now, faults, sw, sv, dt>>

\* Lines 713-719 in activateConfig: the copy of the config that was active
\* cannot be removed; the error is shown and activateConfig goes on.
ActivateDeactivateFails(name) ==
    /\ cm.activeConfig # NoConfig
    /\ cm.activeConfig \in cm.copies
    /\ faults < MaxFaults
    /\ faults' = faults + 1
    /\ cm' = [Installed([deactivateCurrent(Called(cm, "activate", name, "ok"), FALSE)
                            EXCEPT !.activeConfig = name], name)
                 EXCEPT !.configs = Updated(@, name)]
    /\ UNCHANGED <<hasWorkspace, backupBeforeSwitch, doc, ws, bkRoot, bk, now, sw, sv, dt>>

\* Line 705: copyFolderRecursive throws, before it made the target
\* directory or after (partial); the list is not saved.
ActivateCopyFails(name, partial) ==
    /\ name \in cm.dirs
    /\ faults < MaxFaults
    /\ faults' = faults + 1
    /\ cm' = [deactivateCurrent(Called(cm, "activate", name, "threw"), TRUE) EXCEPT
                 !.activeConfig = name,
                 !.copies = IF partial THEN @ \cup {name} ELSE @]
    /\ UNCHANGED <<hasWorkspace, backupBeforeSwitch, doc, ws, bkRoot, bk, now, sw, sv, dt>>

Init ==
    /\ hasWorkspace \in BOOLEAN
    /\ backupBeforeSwitch \in BOOLEAN
    /\ doc = ValidDoc(StoredProfiles)
    /\ ws \in StartWorkspaces
    /\ bkRoot = FALSE
    /\ bk = NoBackups
    /\ now = 0
    /\ faults = 0
    /\ sw = [p \in Switchers |-> IdleSwitch]
    /\ sv = [s \in Savers |-> IdleSave]
    /\ dt = IdleDetect
    /\ cm = NoConfigs

Next ==
    \/ \E p \in Switchers, n \in SwitchNames : switchProfile(p, n)
    \/ \E p \in Switchers, t \in Times : SwitchLookup(p, t)
    \/ \E p \in Switchers : backupCurrentConfig(p)
    \/ \E p \in Switchers : BackupEnsureDirFails(p)
    \/ \E p \in Switchers, k \in 1..Len(Footprint) : BackupCopyFails(p, k)
    \/ \E p \in Switchers, notify \in BOOLEAN : ClearConfigs(p, notify)
    \/ \E p \in Switchers, k \in 1..Len(Footprint) : ClearFails(p, k)
    \/ \E p \in Switchers, notify \in BOOLEAN : WriteConfig(p, notify)
    \/ \E p \in Switchers : WriteFails(p)

Spec == Init /\ [][Next]_vars

\* Lines 145-206: the awaited calls of one switchProfile call, each of which
\* resolves or rejects.
SwitchStep(p) ==
    \/ \E t \in Times : SwitchLookup(p, t)
    \/ backupCurrentConfig(p)
    \/ BackupEnsureDirFails(p)
    \/ \E k \in 1..Len(Footprint) : BackupCopyFails(p, k)
    \/ \E notify \in BOOLEAN : ClearConfigs(p, notify)
    \/ \E k \in 1..Len(Footprint) : ClearFails(p, k)
    \/ \E notify \in BOOLEAN : WriteConfig(p, notify)
    \/ WriteFails(p)

(***************************************************************************)
(* The switch when every awaited call settles: each call of switchProfile  *)
(* that has started takes its next step, which is the awaited call         *)
(* resolving or rejecting. The store holds one profile, which has rules,   *)
(* ignore patterns and a memory bank, so that the write loops take three   *)
(* steps.                                                                  *)
(***************************************************************************)
RulesOnly ==
    [name |-> "rules-only", description |-> "", aiTool |-> "other", configs |-> <<>>,
     ignorePatterns |-> "dist", rules |-> "use hooks", memoryBank |-> "notes"]

LiveProfiles == [n \in {"rules-only"} |-> RulesOnly]

LiveInit ==
    /\ hasWorkspace \in BOOLEAN
    /\ backupBeforeSwitch \in BOOLEAN
    /\ doc = ValidDoc(LiveProfiles)
    /\ ws \in StartWorkspaces
    /\ bkRoot = FALSE
    /\ bk = NoBackups
    /\ now = 0
    /\ faults = 0
    /\ sw = [p \in Switchers |-> IdleSwitch]
    /\ sv = [s \in Savers |-> IdleSave]
    /\ dt = IdleDetect
    /\ cm = NoConfigs

LiveNext ==
    \/ \E p \in Switchers, n \in DOMAIN LiveProfiles \cup {"ghost"} : switchProfile(p, n)
    \/ \E p \in Switchers : SwitchStep(p)

LiveSpec == LiveInit /\ [][LiveNext]_vars /\ \A p \in Switchers : WF_vars(SwitchStep(p))

(***************************************************************************)
(* Detection, on its own: the workspace holds any of a few paths, and the  *)
(* glob calls of `failed` reject.                                          *)
(***************************************************************************)
DetectPaths == {".cursorrules", ".cursor", "windsurf.json", ".github", "memory_bank", ".rules"}

DetectWorkspaces == {[q \in S |-> "old"] : S \in SUBSET DetectPaths}

FailedGlobs == {{}, {".cursorrules"}, {"windsurf.json", ".github"}}

KeyOrders == {<<>>, <<"react-cursor", "windsurf-node">>, <<"windsurf-node", "react-cursor">>}

DetectInit ==
    /\ hasWorkspace \in BOOLEAN
    /\ backupBeforeSwitch = FALSE
    /\ doc \in {ValidDoc(NoProfiles), ValidDoc(StoredProfiles)}
    /\ ws \in DetectWorkspaces
    /\ bkRoot = FALSE
    /\ bk = NoBackups
    /\ now = 0
    /\ faults = 0
    /\ sw = [p \in Switchers |-> IdleSwitch]
    /\ sv = [s \in Savers |-> IdleSave]
    /\ dt = IdleDetect
    /\ cm = NoConfigs

DetectNext ==
    \/ \E failed \in FailedGlobs : DetectCall(failed)
    \/ \E failed \in FailedGlobs, keys \in KeyOrders : CurrentProfileCall(failed, keys)

DetectSpec == DetectInit /\ [][DetectNext]_vars

(***************************************************************************)
(* The sync command and the switches that follow it, without backups and   *)
(* without failing file system calls.                                      *)
(***************************************************************************)
SyncNames == {"scratch"}

SyncDescriptions == {"", "mine"}

SyncInit ==
    /\ hasWorkspace \in BOOLEAN
    /\ backupBeforeSwitch = FALSE
    /\ doc = ValidDoc(StoredProfiles)
    /\ ws \in StartWorkspaces
    /\ bkRoot = FALSE
    /\ bk = NoBackups
    /\ now = 0
    /\ faults = 0
    /\ sw = [p \in Switchers |-> IdleSwitch]
    /\ sv = [s \in Savers |-> IdleSave]
    /\ dt = IdleDetect
    /\ cm = NoConfigs

SyncNext ==
    \/ \E s \in Savers, name \in SyncNames : NameInput(s, "sync", name)
    \/ \E s \in Savers, description \in SyncDescriptions, failed \in FailedGlobs :
          syncFromCurrent(s, description, failed)
    \/ \E s \in Savers : Dismiss(s)
    \/ \E s \in Savers : SaveLoad(s)
    \/ \E s \in Savers : SaveOpen(s)
    \/ \E s \in Savers : SaveWrite(s)
    \/ \E p \in Switchers, n \in SyncNames \cup {"react-cursor"} : switchProfile(p, n)
    \/ \E p \in Switchers : SwitchLookup(p, now)
    \/ \E p \in Switchers, notify \in BOOLEAN : ClearConfigs(p, notify)
    \/ \E p \in Switchers, notify \in BOOLEAN : WriteConfig(p, notify)

SyncSpec == SyncInit /\ [][SyncNext]_vars

(***************************************************************************)
(* Switches to profiles whose keys are paths, without backups and without  *)
(* failing file system calls.                                              *)
(***************************************************************************)
PathInit ==
    /\ hasWorkspace = TRUE
    /\ backupBeforeSwitch = FALSE
    /\ doc = ValidDoc(SharedProfiles)
    /\ ws \in StartWorkspaces
    /\ bkRoot = FALSE
    /\ bk = NoBackups
    /\ now = 0
    /\ faults = 0
    /\ sw = [p \in Switchers |-> IdleSwitch]
    /\ sv = [s \in Savers |-> IdleSave]
    /\ dt = IdleDetect
    /\ cm = NoConfigs

PathNext ==
    \/ \E p \in Switchers, n \in DOMAIN SharedProfiles : switchProfile(p, n)
    \/ \E p \in Switchers : SwitchLookup(p, now)
    \/ \E p \in Switchers, notify \in BOOLEAN : ClearConfigs(p, notify)
    \/ \E p \in Switchers, notify \in BOOLEAN : WriteConfig(p, notify)

PathSpec == PathInit /\ [][PathNext]_vars

(***************************************************************************)
(* Detection, one store command and one switch, side by side, without      *)
(* backups and without failing file system calls.                          *)
(***************************************************************************)
FrameInit ==
    /\ hasWorkspace = TRUE
    /\ backupBeforeSwitch = FALSE
    /\ doc \in {ValidDoc(NoProfiles), ValidDoc(StoredProfiles)}
    /\ ws \in StartWorkspaces
    /\ bkRoot = FALSE
    /\ bk = NoBackups
    /\ now = 0
    /\ faults = 0
    /\ sw = [p \in Switchers |-> IdleSwitch]
    /\ sv = [s \in Savers |-> IdleSave]
    /\ dt = IdleDetect
    /\ cm = NoConfigs

FrameNext ==
    \/ DetectCall({})
    \/ \E keys \in KeyOrders : CurrentProfileCall({}, keys)
    \/ \E create \in BOOLEAN : suggestProfileCreation({}, create)
    \/ NameInput(1, "create", "scratch")
    \/ \E s \in Savers : createProfile(s, "scratch", "mine", "windsurf")
    \/ NameInput(1, "sync", "scratch")
    \/ \E s \in Savers : syncFromCurrent(s, "", {})
    \/ \E name \in StoreNames : EditPick(1, name)
    \/ \E s \in Savers : editProfile(s, "mine", "windsurf")
    \/ ManageList(1)
    \/ \E s \in Savers, name \in StoreNames : ManageDelete(s, name)
    \/ \E s \in Savers : Dismiss(s)
    \/ \E s \in Savers : SaveLoad(s)
    \/ \E s \in Savers : SaveOpen(s)
    \/ \E s \in Savers : SaveWrite(s)
    \/ \E n \in DOMAIN StoredProfiles : switchProfile(1, n)
    \/ \E p \in Switchers : SwitchLookup(p, now)
    \/ \E p \in Switchers, notify \in BOOLEAN : ClearConfigs(p, notify)
    \/ \E p \in Switchers, notify \in BOOLEAN : WriteConfig(p, notify)

FrameSpec == FrameInit /\ [][FrameNext]_vars

\* The store when the extension starts: not yet created, empty, holding
\* profiles, or damaged.
StartDocs == {AbsentDoc, ValidDoc(NoProfiles), ValidDoc(StoredProfiles), MalformedDoc}

StoreInit ==
    /\ hasWorkspace \in BOOLEAN
    /\ backupBeforeSwitch = FALSE
    /\ doc \in StartDocs
    /\ ws = EmptyDir
    /\ bkRoot = FALSE
    /\ bk = NoBackups
    /\ now = 0
    /\ faults = 0
    /\ sw = [p \in Switchers |-> IdleSwitch]
    /\ sv = [s \in Savers |-> IdleSave]
    /\ dt = IdleDetect
    /\ cm = NoConfigs

StoreNext ==
    \/ \E s \in Savers, name \in InputNames : NameInput(s, "create", name)
    \/ \E s \in Savers, in \in CreateInputs : createProfile(s, in[1], in[2], in[3])
    \/ \E s \in Savers : ensureProfilesFile(s)
    \/ \E s \in Savers, name \in StoreNames : EditPick(s, name)
    \/ \E s \in Savers, in \in CreateInputs : editProfile(s, in[2], in[3])
    \/ \E s \in Savers : ManageList(s)
    \/ \E s \in Savers, name \in StoreNames : ManageDelete(s, name)
    \/ \E s \in Savers : Dismiss(s)
    \/ \E s \in Savers : LoadForSave(s)
    \/ \E s \in Savers : SaveLoad(s)
    \/ \E s \in Savers : SaveOpen(s)
    \/ \E s \in Savers : SaveOpenFails(s)
    \/ \E s \in Savers : SaveWrite(s)
    \/ \E s \in Savers : SaveWriteFails(s)

StoreSpec == StoreInit /\ [][StoreNext]_vars

(***************************************************************************)
(* ConfigManager on its own, from a workspace without configs.             *)
(***************************************************************************)
ConfigInit ==
    /\ hasWorkspace = TRUE
    /\ backupBeforeSwitch = FALSE
    /\ doc = ValidDoc(NoProfiles)
    /\ ws = EmptyDir
    /\ bkRoot = FALSE
    /\ bk = NoBackups
    /\ now = 0
    /\ faults = 0
    /\ sw = [p \in Switchers |-> IdleSwitch]
    /\ sv = [s \in Savers |-> IdleSave]
    /\ dt = IdleDetect
    /\ cm = NoConfigs

ConfigNext ==
    \/ loadActiveConfig
    \/ \E name \in ConfigNames : createConfig(name)
    \/ \E name \in ConfigNames : CreateCopyFails(name)
    \/ \E name \in ConfigNames : deleteConfig(name)
    \/ \E name \in ConfigNames : DeleteDeactivateFails(name)
    \/ \E name \in ConfigNames : DeleteRemoveFails(name)
    \/ \E name \in ConfigNames : activateConfig(name)
    \/ \E name \in ConfigNames : ActivateDeactivateFails(name)
    \/ \E name \in ConfigNames, partial \in BOOLEAN : ActivateCopyFails(name, partial)

ConfigSpec == ConfigInit /\ [][ConfigNext]_vars

(***************************************************************************)
(* Properties of the switch.                                               *)
(***************************************************************************)
\* The files a profile declares: path -> text.
FilesOf(profile) ==
    [q \in PlanPaths(profile) |->
        LET i == CHOOSE i \in 1..Len(WritePlan(profile)) : WritePlan(profile)[i][1] = q
        IN WritePlan(profile)[i][2]]

BecomesDone(p) == sw[p].pc # "Done" /\ sw'[p].pc = "Done"

BecomesError(p) == sw[p].pc # "Error" /\ sw'[p].pc = "Error"

\* C1: when a switch to A has succeeded and the next switch, made after it
\* ended, has succeeded with B, the workspace holds exactly the files B
\* declares (configs and the specialized files of its non-empty fields).
C1_SwitchThenSwitch ==
    [][\A p, q \in Switchers :
          (q = p + 1 /\ sw[p].pc = "Done" /\ sw[q].after /\ BecomesDone(q))
          => ws' = FilesOf(sw'[q].profile)]_vars

\* C2: two switches never overlap: no two calls have both made a file system
\* call of their steps while neither has ended.
C2_NoInterleaving ==
    \A p, q \in Switchers :
        p # q => ~(sw[p].acted /\ InFlight(sw[p]) /\ sw[q].acted /\ InFlight(sw[q]))

BackupHolds(c, backups) ==
    \A path \in FootprintPaths \cap DOMAIN c.pre :
        /\ c.ts \in DOMAIN backups
        /\ path \in DOMAIN backups[c.ts]
        /\ backups[c.ts][path] = c.pre[path]

\* C4: when a switch that backs up fails in the remove loop or later, its
\* backup directory holds every footprint path that existed before the switch.
C4_BackupHoldsPre ==
    [][\A p \in Switchers :
          (BecomesError(p) /\ sw'[p].failedAt \in {"Clearing", "Writing"} /\ backupBeforeSwitch)
          => BackupHolds(sw'[p], bk')]_vars

\* C5: when a switch succeeds, every footprint path that exists in the
\* workspace is a file the switch wrote for its profile.
C5_OnlyProfileFootprint ==
    [][\A p \in Switchers :
          BecomesDone(p)
          => \A path \in FootprintPaths \cap DOMAIN ws' :
                /\ path \in PlanPaths(sw'[p].profile)
                /\ ws'[path] = FilesOf(sw'[p].profile)[path]]_vars

\* C6: when a switch succeeds, every file its profile declares exists with
\* the declared text.
C6_ProfileMaterialized ==
    [][\A p \in Switchers :
          BecomesDone(p)
          => \A path \in PlanPaths(sw'[p].profile) :
                /\ path \in DOMAIN ws'
                /\ ws'[path] = FilesOf(sw'[p].profile)[path]]_vars

\* C10: a backup directory is not changed once the backup step that made it
\* has ended.
C10_BackupNeverMutated ==
    [][\A p \in Switchers :
          (sw[p].backedUp /\ sw[p].ts \in DOMAIN bk)
          => (sw[p].ts \in DOMAIN bk' /\ bk'[sw[p].ts] = bk[sw[p].ts])]_vars

\* The steps of a switch, in their order.
Steps == {"BackingUp", "Clearing", "Writing"}

\* A call the validation of lines 146-155 rejected: it took no step.
Rejected(c) == c.pc = "Error" /\ c.failedAt \in {"Idle", "getProfiles"} /\ ~c.acted

\* The step a call may be at next.
Successors(c) ==
    CASE c.pc = "Idle" -> {"Idle", "getProfiles", "Error"}
      [] c.pc = "getProfiles" ->
            {"getProfiles", "Error"} \cup (IF backupBeforeSwitch THEN {"BackingUp"} ELSE {"Clearing"})
      [] c.pc = "BackingUp" -> {"BackingUp", "Clearing", "Error"}
      [] c.pc = "Clearing" ->
            {"Clearing", "Error"} \cup (IF WritePlan(c.profile) = <<>> THEN {"Done"} ELSE {"Writing"})
      [] c.pc = "Writing" -> {"Writing", "Done", "Error"}
      [] OTHER -> {c.pc, "Ended"}

\* C11: a switch goes through BackingUp, Clearing, Writing, Done in that
\* order; it is at BackingUp exactly when backupBeforeSwitch is set; it has
\* removed and written nothing before its backup step has ended and written
\* nothing before its remove loop has ended; it enters Error from the step it
\* was at, a call that validation rejected having taken no step; a call that
\* is Done or in Error stays so.
C11_StepOrder ==
    [][\A p \in Switchers :
          /\ sw'[p].pc \in Successors(sw[p])
          /\ sw'[p].pc \in {"BackingUp", "Clearing"} => sw'[p].touched = {} /\ sw'[p].widx = 0
          /\ sw'[p].pc \in {"Clearing", "Writing", "Done"} =>
                (sw'[p].backedUp <=> backupBeforeSwitch)
          /\ BecomesError(p) =>
                /\ sw'[p].failedAt = sw[p].pc
                /\ sw[p].pc \in Steps \/ Rejected(sw'[p])]_vars

\* A switch that backed up, removed and wrote has returned.
C11_Witness ==
    \E p \in Switchers :
        /\ sw[p].pc = "Done"
        /\ sw[p].backedUp
        /\ sw[p].ts \in DOMAIN bk
        /\ sw[p].touched \cap DOMAIN sw[p].pre # {}
        /\ PlanPaths(sw[p].profile) \subseteq sw[p].touched

C12_FailStop ==
    [][\A p \in Switchers :
          /\ (BecomesError(p) /\ sw'[p].failedAt \in Steps) =>
                /\ sw'[p].shown = "error"
                /\ sw'[p].failedAt \in {"BackingUp", "Writing"} => ws' = ws
                /\ sw'[p].failedAt = "Clearing" =>
                      \A q \in DOMAIN ws' : q \in DOMAIN ws /\ ws'[q] = ws[q]
          /\ sw[p].pc = "Error" => sw'[p] \in {sw[p], EndedSwitch}]_vars

\* A switch failed at a write after it had written a file, and the file is
\* still there.
C12_Witness ==
    \E p \in Switchers :
        /\ sw[p].pc = "Error"
        /\ sw[p].failedAt = "Writing"
        /\ sw[p].shown = "error"
        /\ \E q \in sw[p].touched \cap PlanPaths(sw[p].profile) :
              q \in DOMAIN ws /\ ws[q] = FilesOf(sw[p].profile)[q]

(***************************************************************************)
(* Properties of the store.                                                *)
(***************************************************************************)
\* C7: no getProfiles reads ai-profiles.json while it holds none or part of
\* the text a save is writing.
C7_NoPartialRead == \A s \in Savers : sv[s].saw # "partial"

\* C8: when two saves of different names have returned and no save is under
\* way, the store holds both names.
C8_BothSaved ==
    \A s, r \in Savers :
        (/\ sv[s].pc = "Done" /\ sv[r].pc = "Done" /\ sv[s].name # sv[r].name
         /\ sv[s].shown = "info" /\ sv[r].shown = "info"
         /\ \A u \in Savers : sv[u].pc \in {"Idle", "Done", "Error"} /\ sv[u].op # "delete")
        => {sv[s].name, sv[r].name} \subseteq DOMAIN getProfiles(doc)

\* C9: a save whose getProfiles read a malformed document ends in error: it
\* does not go on to write over the document.
C9_CorruptStoreSurfaced ==
    \A s \in Savers : sv[s].saw = "malformed" => sv[s].pc = "Error"

(***************************************************************************)
(* Properties of detection.                                                *)
(***************************************************************************)
\* The paths of a tool.
PathsOf(tool) == {CONFIG_MAPPINGS[tool][j] : j \in 1..Len(CONFIG_MAPPINGS[tool])}

Tools == {AIToolType[i] : i \in 1..Len(AIToolType)}

\* C14: detectAIConfigurations returns nothing without a workspace; with one
\* it lists a tool, once, exactly when a path of the tool whose glob did not
\* reject exists: when no glob rejects, exactly when a path of the tool
\* exists. In a workspace that holds .cursorrules alone it returns cursor alone.
C14_DetectIffPresent ==
    dt.pc # "Idle" =>
        /\ ~hasWorkspace => dt.detectedTools = <<>>
        /\ hasWorkspace =>
              \A tool \in Tools :
                  Includes(dt.detectedTools, tool)
                      <=> (PathsOf(tool) \ dt.failed) \cap DOMAIN ws # {}
        /\ \A i, j \in 1..Len(dt.detectedTools) :
              dt.detectedTools[i] = dt.detectedTools[j] => i = j
        /\ (hasWorkspace /\ DOMAIN ws = {".cursorrules"} /\ dt.failed = {})
              => dt.detectedTools = <<"cursor">>

\* Detection ran, with no glob rejecting, in a workspace where two tools have
\* a path, one of them two paths, and a third tool has none.
C14_Witness ==
    /\ dt.pc = "detected"
    /\ hasWorkspace
    /\ dt.failed = {}
    /\ {".cursorrules", ".cursor", "memory_bank"} \subseteq DOMAIN ws
    /\ "windsurf.json" \notin DOMAIN ws
    /\ dt.detectedTools = <<"cursor", "other">>

\* C15: getCurrentProfile returns the first profile, in the order of the
\* store's keys, whose aiTool is among the detected tools; it returns
\* undefined without a workspace, when no tool is detected and when no stored
\* profile has a detected tool.
C15_FirstDetectedProfile ==
    dt.pc = "current" =>
        LET values == Values(getProfiles(doc), dt.keys)
            hit(i) == Includes(dt.detectedTools, values[i].aiTool)
        IN /\ (~hasWorkspace \/ dt.detectedTools = <<>>) => ~dt.current.found
           /\ dt.current.found <=> \E i \in 1..Len(values) : hit(i)
           /\ dt.current.found =>
                 \E i \in 1..Len(values) :
                     /\ hit(i)
                     /\ dt.current.profile = values[i]
                     /\ \A j \in 1..(i - 1) : ~hit(j)

\* Two stored profiles both have a detected tool, and getCurrentProfile gave
\* the one whose key comes first in the store.
C15_Witness ==
    /\ dt.pc = "current"
    /\ dt.keys = <<"windsurf-node", "react-cursor">>
    /\ Includes(dt.detectedTools, "cursor")
    /\ Includes(dt.detectedTools, "windsurf")
    /\ dt.current.found
    /\ dt.current.profile = WindsurfNode

(***************************************************************************)
(* Properties of the commands that write the store.                        *)
(***************************************************************************)
\* C16: when the delete of the manage command has written, the store holds
\* the records it held just before the command opened the file, but for the
\* deleted one: a record saved after the command listed the profiles is kept.
C16_DeleteKeepsOthers ==
    [][\A s \in Savers :
          (sv[s].op = "delete" /\ sv[s].pc = "write" /\ sv'[s].pc = "Done")
          => getProfiles(doc') = Without(sv[s].before, sv[s].name)]_vars

\* C17: when the create or the sync command writes a name the store held
\* just before the command opened the file, the command fails and the record
\* the store held under the name is the one it holds afterwards.
C17_CreateOnly ==
    [][\A s \in Savers :
          (/\ sv[s].op \in {"create", "sync"} /\ sv[s].pc = "write" /\ sv'[s].pc # "write"
           /\ sv[s].name \in DOMAIN sv[s].before)
          => /\ sv'[s].pc = "Error"
             /\ sv[s].name \in DOMAIN getProfiles(doc')
             /\ getProfiles(doc')[sv[s].name] = sv[s].before[sv[s].name]]_vars

\* What a reader of the document can tell: a document that does not exist
\* reads as the empty mapping does.
Observable(d) == IF d.kind = "absent" THEN ValidDoc(NoProfiles) ELSE d

\* C18: when what getProfiles gave has been saved as it is, the document
\* reads as it did when getProfiles read it.
C18_RoundTrip ==
    [][\A s \in Savers :
          (sv[s].op = "resave" /\ sv[s].pc = "write" /\ sv'[s].pc = "Done")
          => Observable(doc') =
                Observable([kind |-> sv[s].saw,
                            profiles |-> IF sv[s].saw = "valid" THEN sv[s].profiles
                                         ELSE NoProfiles])]_vars

\* C19: when the first switch made in the workspace succeeds, and it is a
\* switch to a profile the sync command saved, every path of the profile's
\* tool that the workspace held is in the workspace with the content it had.
C19_SyncCaptures ==
    [][\A p \in Switchers :
          (/\ BecomesDone(p)
           /\ \A q \in Switchers \ {p} : sw[q].pc = "Idle"
           /\ \E s \in Savers :
                 /\ sv[s].op = "sync" /\ sv[s].pc = "Done" /\ sv[s].shown = "info"
                 /\ sv[s].profile = sw[p].profile)
          => \A path \in PathsOf(sw[p].profile.aiTool) \cap DOMAIN sw[p].pre :
                path \in DOMAIN ws' /\ ws'[path] = sw[p].pre[path]]_vars

(***************************************************************************)
(* Properties of the paths a switch writes.                                *)
(***************************************************************************)
\* C20: a switch writes the file of a configs key only under the workspace,
\* and does not write the file of a key that has a ".." segment or is an
\* absolute path.
C20_StaysInWorkspace ==
    \A p \in Switchers :
        \A i \in 1..Len(sw[p].profile.configs) :
            LET fileName == sw[p].profile.configs[i][1]
                filePath == pathJoin(Workspace, fileName)
            IN Relative(filePath) \in sw[p].touched
               => /\ Under(filePath, Workspace)
                  /\ \A j \in 1..Len(Split(fileName)) : Split(fileName)[j] # ".."
                  /\ Split(fileName)[1] # ""
(***************************************************************************)
(* Properties of the store's keys.                                         *)
(***************************************************************************)
\* C21: in every state of the store the commands can reach, each key of the
\* mapping is a non-empty string and equals the name field of the record
\* stored under it; the keys being the names, no two records share a name.
C21_KeyIsName ==
    \A n \in DOMAIN getProfiles(doc) :
        /\ n # ""
        /\ getProfiles(doc)[n].name = n
        /\ \A m \in DOMAIN getProfiles(doc) :
              getProfiles(doc)[m].name = getProfiles(doc)[n].name => m = n

\* A create command was refused the empty name, and another one has
\* stored the profile it built under the name the user gave.
C21_Witness ==
    /\ \E s \in Savers : sv[s].op = "create" /\ sv[s].shown = "required"
    /\ \E s \in Savers :
          /\ sv[s].op = "create" /\ sv[s].pc = "Done" /\ sv[s].shown = "info"
          /\ sv[s].name \in DOMAIN getProfiles(doc)
          /\ getProfiles(doc)[sv[s].name] = sv[s].profile

(***************************************************************************)
(* Properties of the edit command.                                         *)
(***************************************************************************)
\* C23: when the edit command writes the store, the profile it edited keeps
\* the name, configs, rules, ignorePatterns and memoryBank the store held for
\* it just before the write, and every other profile is as it was.
C23_EditKeepsContent ==
    [][\A s \in Savers :
          (sv[s].op = "edit" /\ sv[s].pc = "write" /\ sv'[s].pc = "Done"
              /\ sv[s].name \in DOMAIN sv[s].before)
          => /\ sv[s].name \in DOMAIN getProfiles(doc')
             /\ LET new == getProfiles(doc')[sv[s].name]
                    old == sv[s].before[sv[s].name]
                IN /\ new.name = old.name
                   /\ new.configs = old.configs
                   /\ new.rules = old.rules
                   /\ new.ignorePatterns = old.ignorePatterns
                   /\ new.memoryBank = old.memoryBank
             /\ \A m \in DOMAIN sv[s].before \ {sv[s].name} :
                   m \in DOMAIN getProfiles(doc') /\ getProfiles(doc')[m] = sv[s].before[m]]_vars

(***************************************************************************)
(* Properties of the initialization of the store.                          *)
(***************************************************************************)
\* C27: the write of ensureProfilesFile discards nothing: every profile the
\* store held just before that write opened the file is in the store after
\* it, however the initialization interleaves with a saveProfile call.
C27_EnsureKeepsSaved ==
    [][\A s \in Savers :
          (sv[s].op = "ensure" /\ sv[s].pc = "write" /\ sv'[s].pc = "Done")
          => \A n \in DOMAIN sv[s].before : n \in DOMAIN getProfiles(doc')]_vars

(***************************************************************************)
(* Properties of detection when a glob rejects.                            *)
(***************************************************************************)
\* C25: a glob that rejects counts as a path that is not there, and no more:
\* detection returns, it reports every tool that has an existing path whose
\* glob did not reject, whatever globs of that tool or of other tools
\* rejected, and it does not report a tool whose existing paths all rejected.
C25_GlobErrorSwallowed ==
    (hasWorkspace /\ dt.failed # {}) =>
        /\ dt.pc \in {"detected", "current"}
        /\ \A tool \in Tools :
              /\ (\E path \in PathsOf(tool) : path \notin dt.failed /\ path \in DOMAIN ws)
                    => Includes(dt.detectedTools, tool)
              /\ (\A path \in PathsOf(tool) \cap DOMAIN ws : path \in dt.failed)
                    => ~Includes(dt.detectedTools, tool)

\* The glob of .cursorrules rejected in a workspace that holds .cursorrules,
\* .cursor and memory_bank: cursor is reported for .cursor, and other, a
\* later tool, for memory_bank.
C25_Witness ==
    /\ dt.pc = "detected"
    /\ hasWorkspace
    /\ dt.failed = {".cursorrules"}
    /\ {".cursorrules", ".cursor", "memory_bank"} \subseteq DOMAIN ws
    /\ dt.detectedTools = <<"cursor", "other">>

(***************************************************************************)
(* Properties of the refresh of the tree view.                             *)
(***************************************************************************)
\* C26: a switch command that has removed or written a file of the
\* workspace has fired the refresh of the tree view by the time it returns,
\* whether switchProfile returned or threw.
C26_RefreshAfterMutation ==
    \A p \in Switchers :
        (sw[p].pc \in {"Done", "Error"} /\ sw[p].touched # {}) => sw[p].refreshed

(***************************************************************************)
(* Termination of the switch.                                              *)
(***************************************************************************)
\* C24: when every file system call settles, a switchProfile call that has
\* started reaches Done or Error: it does not stay in its lookup, in
\* BackingUp, in Clearing or in Writing for ever.
C24_SwitchEnds ==
    \A p \in Switchers :
        (sw[p].pc \in {"getProfiles", "BackingUp", "Clearing", "Writing"})
            ~> (sw[p].pc \in {"Done", "Error", "Ended"})

\* A call went through the backup, the remove loop and the write loops and
\* returned, and another call ended in an error after it had started.
C24_Witness ==
    \E p, q \in Switchers :
        /\ sw[p].pc = "Done" /\ sw[p].backedUp /\ sw[p].acted
        /\ {".rules", ".aiignore", "memory_bank"} \subseteq sw[p].touched
        /\ sw[q].pc = "Error" /\ sw[q].failedAt \in {"BackingUp", "Clearing", "Writing"}

FlaggedActive(configs, name) ==
    \E i \in 1..Len(configs) : configs[i].name = name /\ configs[i].active

\* C28: after any sequence of calls the field activeConfig is null or names
\* an entry of configs.json that is flagged active; after the active config
\* was deleted its name is no longer the value of activeConfig.
C28_ActiveIsListedActive ==
    /\ cm.activeConfig # NoConfig => FlaggedActive(cm.configs, cm.activeConfig)
    /\ (cm.last.op = "delete" /\ cm.last.outcome = "ok") => cm.activeConfig # cm.last.name

\* C29: the names of configs.json are pairwise distinct and at most one
\* entry is active; when activateConfig(name) has returned for a name that
\* was listed, the entry of that name is active and no other is.
C29_OneActiveEntry ==
    /\ \A i, j \in 1..Len(cm.configs) :
          /\ cm.configs[i].name = cm.configs[j].name => i = j
          /\ (cm.configs[i].active /\ cm.configs[j].active) => i = j
    /\ (cm.last.op = "activate" /\ cm.last.outcome = "ok" /\ cm.last.listed)
          => /\ FlaggedActive(cm.configs, cm.last.name)
             /\ \A i \in 1..Len(cm.configs) :
                   cm.configs[i].active => cm.configs[i].name = cm.last.name

\* Two configs are listed, one was active, and activateConfig has returned
\* for the other one.
C29_Witness ==
    /\ cm.last = [op |-> "activate", name |-> "beta", listed |-> TRUE, outcome |-> "ok"]
    /\ cm.configs = << [name |-> "alpha", active |-> FALSE], [name |-> "beta", active |-> TRUE] >>
    /\ cm.copies = {"beta"}
    /\ cm.activeConfig = "beta"

\* C30: at most one copy .<name> of a config is in the workspace root, and
\* the copy that is there is the one of the entry flagged active.
C30_OneCopyOfActive ==
    /\ Cardinality(cm.copies) <= 1
    /\ \A n \in cm.copies : FlaggedActive(cm.configs, n)

\* C31: a call of ConfigManager that ends with an error message -
\* createConfig with a listed name, deleteConfig with a name that is not
\* listed, deleteConfig whose removal of the directory fails - leaves
\* configs.json, the config directories, activeConfig and the copies in the
\* workspace as they were.
C31_RejectedChangesNothing ==
    [][(cm' # cm /\ cm'.last.outcome = "error")
          => /\ cm'.configs = cm.configs
             /\ cm'.dirs = cm.dirs
             /\ cm'.activeConfig = cm.activeConfig
             /\ cm'.copies = cm.copies]_vars

====
